---- MODULE Spec2Model ----
(***************************************************************************)
(* Step-detection and rolling-hour aggregation engine of the Pico activity *)
(* tracker (src/src/imu.c), driven by the sampling loop of src/src/main.c. *)
(*                                                                         *)
(* Number representation.                                                  *)
(*  - A uint32_t is a pair <<hi, lo>> of 16-bit halves (value hi*2^16+lo): *)
(*    the checker's integers are narrower than 2^32, and the millisecond   *)
(*    clock must wrap exactly as the C type does.  Add32/Sub32 are the     *)
(*    modular + and - of uint32_t.                                         *)
(*  - A float is an IEEE-754 binary32 number <<sign, exponent, mantissa>>   *)
(*    and the float operators of imu_update (the conversion from int16_t,  *)
(*    *, +, -, sqrtf, >) are computed bit for bit, each rounded to the     *)
(*    nearest float as the C operators are: a step is counted by the model *)
(*    exactly when the code counts it.                                     *)
(***************************************************************************)
EXTENDS Integers, Sequences, FiniteSets

VARIABLES
    \* ---- static state of imu.c ----
    spi_initialized,        \* imu_init's static flag
    s_initialized,
    s_raw,                  \* <<s_raw_ax, s_raw_ay, s_raw_az>>  (LSB)
    s_filt,                 \* <<s_filt_ax, s_filt_ay, s_filt_az>> (floats, in g)
    s_mag_lp_initialized,
    s_mag_lp,               \* float, in g
    s_mag_hp,               \* float, in g
    s_total_steps,          \* uint32 pair
    s_last_step_ms,         \* uint32 pair
    s_steps_per_min,        \* [0..59 -> 0..65535]
    s_curr_min_idx,
    s_curr_bucket_start_ms, \* uint32 pair
    s_steps_last_hour_sum,  \* uint32 pair
    \* ---- the caller (main.c) ----
    now_ms,                 \* the millisecond clock as last read by the loop
    imu_ok,                 \* result of the last imu_init()
    last_imu_ms,            \* the loop's time of its last IMU sample
    \* ---- history of the run (observation only) ----
    last_call,              \* "boot" | "init" | "update" | "idle" (a loop
                            \* iteration that did not call imu_update)
    log,                    \* one record per imu_update executed since the last successful init
    ticks,                  \* number of loop iterations / imu_update calls made
    inits,                  \* number of imu_init calls made
    discarded,              \* s_total_steps as the last successful imu_init found it
    driver                  \* "free": any input each tick; "burst": the scripted run

engine == <<spi_initialized, s_initialized, s_raw, s_filt, s_mag_lp_initialized,
            s_mag_lp, s_mag_hp, s_total_steps, s_last_step_ms, s_steps_per_min,
            s_curr_min_idx, s_curr_bucket_start_ms, s_steps_last_hour_sum>>

vars == <<spi_initialized, s_initialized, s_raw, s_filt, s_mag_lp_initialized,
          s_mag_lp, s_mag_hp, s_total_steps, s_last_step_ms, s_steps_per_min,
          s_curr_min_idx, s_curr_bucket_start_ms, s_steps_last_hour_sum,
          now_ms, imu_ok, last_imu_ms, last_call, log, ticks, inits, discarded,
          driver>>

----------------------------------------------------------------------------
\* Program constants

\* 0.000061f, 0.35f and 0.01f: the floats nearest to the decimal literals
IMU_ACCEL_LSB_2G == <<0, -38, 16767552>>
IMU_STEP_THRESHOLD_G == <<0, -25, 11744051>>
IMU_MAG_LP_ALPHA == <<0, -30, 10737418>>
IMU_STEP_MIN_INTERVAL_MS == 350
IMU_HISTORY_MINUTES == 60
IMU_STEP_GOAL_PER_HOUR == 250
IMU_SAMPLE_MS == 20
BUCKET_MS == 60000
LSM6DS3_WHO_AM_I_VALUE == 106
UINT16_MOD == 65536

\* Bounds of the exploration
MaxTicks == 4
MaxInits == 2

----------------------------------------------------------------------------
\* uint32_t arithmetic on <<hi, lo>> pairs

U32(n) == <<n \div UINT16_MOD, n % UINT16_MOD>>

Zero32 == <<0, 0>>

Add32(a, b) ==
    LET lo == a[2] + b[2]
    IN  <<(a[1] + b[1] + (lo \div UINT16_MOD)) % UINT16_MOD, lo % UINT16_MOD>>

Sub32(a, b) ==
    LET lo == a[2] - b[2]
        borrow == IF lo < 0 THEN 1 ELSE 0
    IN  <<(a[1] - b[1] - borrow + 2 * UINT16_MOD) % UINT16_MOD,
          (lo + UINT16_MOD) % UINT16_MOD>>

\* a > n and a >= n for a uint32 pair a and a constant 0 <= n < 2^31
Gt32(a, n) == a[1] >= 32768 \/ a[1] * UINT16_MOD + a[2] > n
Ge32(a, n) == a[1] >= 32768 \/ a[1] * UINT16_MOD + a[2] >= n

\* The value of a pair below 2^31
Val32(a) == a[1] * UINT16_MOD + a[2]

----------------------------------------------------------------------------
\* Sample acquisition and the magnitude

\* (int16_t)((hi << 8) | lo)
Int16(lo, hi) ==
    LET u == hi * 256 + lo
    IN  IF u >= 32768 THEN u - UINT16_MOD ELSE u

\* raw is the 6-byte burst read from OUTX_L_XL: <<xl, xh, yl, yh, zl, zh>>
imu_read_accel_raw_internal(raw) ==
    <<Int16(raw[1], raw[2]), Int16(raw[3], raw[4]), Int16(raw[5], raw[6])>>

----------------------------------------------------------------------------
\* float (IEEE-754 binary32) arithmetic.  A float is <<s, e, m>> of value
\* (-1)^s * m * 2^e: sign s (1 is negative), exponent e >= FLT_EMIN and
\* mantissa m < 2^24.  A normal float has 2^23 <= m; a subnormal one has
\* e = FLT_EMIN and 0 < m < 2^23; the zeros +0 and -0 have e = FLT_EMIN and
\* m = 0.  Every operation returns the float nearest to the exact result, ties
\* to the even mantissa, with gradual underflow and the sign rules of the
\* zeros, as the C operators on float do.  The low-pass decays into the
\* subnormals when the samples stay at zero.  The engine's values stay below
\* 2^2 * sqrt(3) in magnitude and the radicand of sqrtf is a sum of squares, so
\* the infinities and NaN are not represented.

\* The exponent of the subnormals: FLT_TRUE_MIN is 2^-149
FLT_EMIN == -149

\* +0.0f
FZero == <<0, FLT_EMIN, 0>>

\* The zero of sign s
FSignedZero(s) == <<s, FLT_EMIN, 0>>

\* The number of bits of n >= 0
RECURSIVE BitLen(_)
BitLen(n) == IF n = 0 THEN 0 ELSE 1 + BitLen(n \div 2)

\* Where the discarded part rem of a result lies in its unit of 2 * half:
\* 0 nothing discarded, 1 below the half, 2 the half, 3 above the half
RoundClass(rem, half) ==
    IF rem = 0 THEN 0 ELSE IF rem < half THEN 1 ELSE IF rem = half THEN 2 ELSE 3

\* a with its mantissa shifted up to 24 bits, for a nonzero a; the exponent of
\* a subnormal goes below FLT_EMIN
Normalize(a) ==
    IF a[3] >= 2^23 THEN a
    ELSE LET k == 24 - BitLen(a[3])
         IN  <<a[1], a[2] - k, a[3] * 2^k>>

\* RoundPack below the normal range (e < FLT_EMIN): the mantissa loses
\* FLT_EMIN - e more bits and the result is a multiple of 2^FLT_EMIN
RoundSubnormal(s, e, m, r) ==
    LET sh == FLT_EMIN - e
        q == m \div 2^sh
        rem == m % 2^sh
        half == 2^(sh - 1)
        c == IF rem = 0 THEN (IF r = 0 THEN 0 ELSE 1)
             ELSE IF rem < half THEN 1
             ELSE IF rem = half THEN (IF r = 0 THEN 2 ELSE 3)
             ELSE 3
        up == c = 3 \/ (c = 2 /\ q % 2 = 1)
    IN  IF sh > 24 THEN FSignedZero(s)
        ELSE <<s, FLT_EMIN, IF up THEN q + 1 ELSE q>>

\* Round to nearest, ties to even: the float of sign s nearest to the value of
\* exponent e and truncated 24-bit mantissa m, the discarded part being of
\* class r
RoundPack(s, e, m, r) ==
    IF e >= FLT_EMIN
    THEN LET up == r = 3 \/ (r = 2 /\ m % 2 = 1)
             m2 == IF up THEN m + 1 ELSE m
         IN  IF m2 = 2^24 THEN <<s, e + 1, 2^23>> ELSE <<s, e, m2>>
    ELSE RoundSubnormal(s, e, m, r)

\* (float)x for an int16_t x: exact
FromInt16(x) ==
    IF x = 0 THEN FZero
    ELSE LET a == IF x < 0 THEN -x ELSE x
             k == BitLen(a)
         IN  <<IF x < 0 THEN 1 ELSE 0, k - 24, a * 2^(24 - k)>>

\* a * b for nonzero a and b with 24-bit mantissas.  The 48-bit product of the
\* mantissas is hi * 2^24 + lo, put together from the products of their 12-bit
\* halves
FMulNormal(a, b) ==
    LET ah == a[3] \div 4096
        al == a[3] % 4096
        bh == b[3] \div 4096
        bl == b[3] % 4096
        cross == ah * bl + al * bh
        low == (cross % 4096) * 4096 + al * bl
        hi == ah * bh + cross \div 4096 + low \div 2^24
        lo == low % 2^24
        s == (a[1] + b[1]) % 2
    IN  IF hi >= 2^23
        THEN RoundPack(s, a[2] + b[2] + 24, hi, RoundClass(lo, 2^23))
        ELSE RoundPack(s, a[2] + b[2] + 23, hi * 2 + lo \div 2^23,
                       RoundClass(lo % 2^23, 2^22))

\* a * b; a zero product has the product of the signs
FMul(a, b) ==
    IF a[3] = 0 \/ b[3] = 0 THEN FSignedZero((a[1] + b[1]) % 2)
    ELSE FMulNormal(Normalize(a), Normalize(b))

\* -a
FNeg(a) == <<1 - a[1], a[2], a[3]>>

\* |a| < |b|
MagLt(a, b) == a[2] < b[2] \/ (a[2] = b[2] /\ a[3] < b[3])

\* n shifted right by one bit, a discarded 1 kept in the last bit (sticky)
ShiftRightSticky(n) ==
    LET q == n \div 2
    IN  IF n % 2 = 1 /\ q % 2 = 0 THEN q + 1 ELSE q

\* x + y for nonzero x and y with |x| >= |y|: the mantissas are added or
\* subtracted with three more bits (guard, round, sticky), the sum is
\* normalised and rounded; equal values of opposite signs give +0
FAddOrdered(x, y) ==
    LET d == x[2] - y[2]
        X == x[3] * 8
        q == (y[3] * 8) \div 2^d
        r == (y[3] * 8) % 2^d
        Y == IF d > 27 THEN 1
             ELSE IF r # 0 /\ q % 2 = 0 THEN q + 1 ELSE q
        S == IF x[1] = y[1] THEN X + Y ELSE X - Y
        k == 27 - BitLen(S)
    IN  IF S = 0 THEN FZero
        ELSE IF S >= 2^27
        THEN RoundPack(x[1], x[2] + 1, ShiftRightSticky(S) \div 8,
                       RoundClass(ShiftRightSticky(S) % 8, 4))
        ELSE IF S >= 2^26
        THEN RoundPack(x[1], x[2], S \div 8, RoundClass(S % 8, 4))
        ELSE RoundPack(x[1], x[2] - k, (S * 2^k) \div 8,
                       RoundClass((S * 2^k) % 8, 4))

\* a + b; two zeros give +0 unless both are -0
FAdd(a, b) ==
    IF a[3] = 0 /\ b[3] = 0 THEN (IF a[1] = b[1] THEN a ELSE FZero)
    ELSE IF a[3] = 0 THEN b
    ELSE IF b[3] = 0 THEN a
    ELSE IF MagLt(a, b) THEN FAddOrdered(b, a) ELSE FAddOrdered(a, b)

\* a - b
FSub(a, b) == FAdd(a, FNeg(b))

\* c * c compared with hi * 2^26 + lo, for c < 2^25: "lt", "eq" or "gt"
SquareCmp(c, hi, lo) ==
    LET ch == c \div 2^13
        cl == c % 2^13
        x == ch * cl
        low == (x % 2^12) * 2^14 + cl * cl
        shi == ch * ch + x \div 2^12 + low \div 2^26
        slo == low % 2^26
    IN  IF shi < hi \/ (shi = hi /\ slo < lo) THEN "lt"
        ELSE IF shi = hi /\ slo = lo THEN "eq" ELSE "gt"

\* floor(sqrt(n)) by bisection on lo..hi, for n < 2^24
RECURSIVE SqrtBisect(_, _, _)
SqrtBisect(n, lo, hi) ==
    IF lo >= hi THEN lo
    ELSE LET mid == (lo + hi + 1) \div 2
         IN  IF mid * mid <= n THEN SqrtBisect(n, mid, hi)
             ELSE SqrtBisect(n, lo, mid - 1)

\* The largest c at or below the one given with c * c <= hi * 2^26 + lo
RECURSIVE SqrtDown(_, _, _)
SqrtDown(hi, lo, c) ==
    IF SquareCmp(c, hi, lo) = "gt" THEN SqrtDown(hi, lo, c - 1) ELSE c

\* floor(sqrt(hi * 2^26 + lo)) for 2^22 <= hi < 2^24, its upper 12 bits being
\* r1 = floor(sqrt(hi)): the lower 13 bits are at most the quotient of what
\* is left of the radicand by 2 * r1 * 2^13 (and at most 3 below it)
SqrtLower(hi, lo, r1) ==
    LET q == ((hi - r1 * r1) * 2^12 + lo \div 2^14) \div r1
    IN  SqrtDown(hi, lo, r1 * 2^13 + (IF q > 2^13 - 1 THEN 2^13 - 1 ELSE q))

\* sqrtf(a) for a normalized a > 0.  The mantissa is scaled by 2^25 or 2^26,
\* whichever leaves an even exponent, and its integer square root R has 25
\* bits: the 24 of the result and the bit that decides the rounding
FSqrtNormal(a) ==
    LET k == IF (a[2] - 26) % 2 = 0 THEN 26 ELSE 25
        hi == IF k = 26 THEN a[3] ELSE a[3] \div 2
        lo == IF k = 26 THEN 0 ELSE (a[3] % 2) * 2^25
    IN  CHOOSE f \in
          {RoundPack(0, (a[2] - k) \div 2 + 1, R \div 2,
                     IF R % 2 = 0
                     THEN (IF SquareCmp(R, hi, lo) = "eq" THEN 0 ELSE 1)
                     ELSE (IF SquareCmp(R, hi, lo) = "eq" THEN 2 ELSE 3))
             : R \in {SqrtLower(hi, lo, r1) :
                        r1 \in {SqrtBisect(hi, 2^11, 2^12 - 1)}}} : TRUE

\* sqrtf(a) for a >= 0; the square root of a zero is that zero
FSqrt(a) == IF a[3] = 0 THEN a ELSE FSqrtNormal(Normalize(a))

\* a > b; the two zeros are equal
FGt(a, b) ==
    IF a[3] = 0 THEN b[3] # 0 /\ b[1] = 1
    ELSE IF b[3] = 0 THEN a[1] = 0
    ELSE IF a[1] # b[1] THEN a[1] = 0
    ELSE IF a[1] = 0 THEN MagLt(b, a) ELSE MagLt(a, b)

----------------------------------------------------------------------------
\* The magnitude of a sample

\* (float)v * IMU_ACCEL_LSB_2G: an axis in g
ToG(v) == FMul(FromInt16(v), IMU_ACCEL_LSB_2G)

\* <<ax_g, ay_g, az_g>> for a sample a in LSB
SampleInG(a) == <<ToG(a[1]), ToG(a[2]), ToG(a[3])>>

\* sqrtf(ax_g * ax_g + ay_g * ay_g + az_g * az_g)
MagnitudeInG(g) ==
    FSqrt(FAdd(FAdd(FMul(g[1], g[1]), FMul(g[2], g[2])), FMul(g[3], g[3])))

\* The magnitude, in g, of a sample a in LSB
Magnitude(a) ==
    CHOOSE mag \in {MagnitudeInG(g) : g \in {SampleInG(a)}} : TRUE

----------------------------------------------------------------------------
\* Time bucket / history helpers; a histogram is a record
\*   [buckets, idx, start, sum]

ZeroBuckets == [i \in 0 .. IMU_HISTORY_MINUTES - 1 |-> 0]

Hist == [buckets |-> s_steps_per_min, idx |-> s_curr_min_idx,
         start |-> s_curr_bucket_start_ms, sum |-> s_steps_last_hour_sum]

\* imu_history_reset with the memset of the buckets forgotten
HistoryResetKeepBuckets(t) ==
    [buckets |-> s_steps_per_min, idx |-> 0, start |-> t, sum |-> Zero32]

imu_history_reset(t) ==
    [buckets |-> ZeroBuckets, idx |-> 0, start |-> t, sum |-> Zero32]

\* AdvanceBody with the subtraction from the running sum forgotten
AdvanceBodyKeepSum(h) ==
    LET i == (h.idx + 1) % IMU_HISTORY_MINUTES
    IN  [buckets |-> [h.buckets EXCEPT ![i] = 0],
         idx     |-> i,
         start   |-> Add32(h.start, U32(BUCKET_MS)),
         sum     |-> h.sum]

\* One iteration of the while loop of imu_history_advance_buckets
AdvanceBody(h) ==
    LET i == (h.idx + 1) % IMU_HISTORY_MINUTES
    IN  [buckets |-> [h.buckets EXCEPT ![i] = 0],
         idx     |-> i,
         start   |-> Add32(h.start, U32(BUCKET_MS)),
         sum     |-> Sub32(h.sum, U32(h.buckets[i]))]

\* The loop condition with > in the place of >=
AdvanceCondStrict(h, t) == Gt32(Sub32(t, h.start), BUCKET_MS)

\* The loop condition with buckets two minutes long
AdvanceCondTwoMinutes(h, t) == Ge32(Sub32(t, h.start), 2 * BUCKET_MS)

AdvanceCond(h, t) == Ge32(Sub32(t, h.start), BUCKET_MS)

\* The loop written as an if: at most one bucket is advanced per call
AdvanceLoopOnce(h, t) == IF AdvanceCond(h, t) THEN AdvanceBody(h) ELSE h

\* The while loop, one AdvanceBody per iteration.
\*
\* A backward clock step makes (t - start) mod 2^32 huge and the C loop runs up
\* to 71582 times.  Once the buckets are all zero, sixty further iterations (a
\* lap) only subtract 0, clear zero buckets, bring the index back to where it was
\* and move the bucket start on by 60 * 60000 ms; AdvanceLaps takes all the whole
\* laps that remain in one go, so that the evaluation stays shallow.
LapMs == IMU_HISTORY_MINUTES * BUCKET_MS

\* floor(a / LapMs) for a uint32 pair a (LapMs is a multiple of 128)
WholeLaps(a) == (a[1] * (UINT16_MOD \div 128) + a[2] \div 128) \div (LapMs \div 128)

\* a * n mod 2^32 for a uint32 pair a and 0 <= n < 2^15
Mul32(a, n) ==
    LET lo == a[2] * n
    IN  <<(a[1] * n + lo \div UINT16_MOD) % UINT16_MOD, lo % UINT16_MOD>>

AdvanceLaps(h, t) ==
    [h EXCEPT !.start = Add32(@, Mul32(U32(LapMs), WholeLaps(Sub32(t, h.start))))]

RECURSIVE AdvanceLoop(_, _)
AdvanceLoop(h, t) ==
    IF ~AdvanceCond(h, t) THEN h
    ELSE IF h.buckets = ZeroBuckets /\ WholeLaps(Sub32(t, h.start)) > 0
         THEN AdvanceLoop(AdvanceLaps(h, t), t)
         ELSE AdvanceLoop(AdvanceBody(h), t)

\* The number of times the while loop's body runs from h at time t, counted
\* along AdvanceLoop (a lap is sixty runs of the body)
RECURSIVE LoopIterations(_, _)
LoopIterations(h, t) ==
    IF ~AdvanceCond(h, t) THEN 0
    ELSE IF h.buckets = ZeroBuckets /\ WholeLaps(Sub32(t, h.start)) > 0
         THEN IMU_HISTORY_MINUTES * WholeLaps(Sub32(t, h.start))
                + LoopIterations(AdvanceLaps(h, t), t)
         ELSE 1 + LoopIterations(AdvanceBody(h), t)

\* The same for imu_history_advance_buckets: with the bucket start unset the
\* function returns before the loop
AdvanceIterations(h, t) ==
    IF h.start = Zero32 THEN 0 ELSE LoopIterations(h, t)

\* imu_history_advance_buckets without its test for the unset bucket start
AdvanceNoSentinel(h, t) == AdvanceLoop(h, t)

imu_history_advance_buckets(h, t) ==
    IF h.start = Zero32 THEN imu_history_reset(t) ELSE AdvanceLoop(h, t)

----------------------------------------------------------------------------
\* Queries

imu_get_total_steps == s_total_steps

\* imu_get_steps_last_hour without the clamp: the cast alone
LastHourTruncated == s_steps_last_hour_sum[2]

imu_get_steps_last_hour ==
    IF s_steps_last_hour_sum[1] > 0 THEN UINT16_MOD - 1
    ELSE s_steps_last_hour_sum[2]

\* imu_step_goal_reached with > in the place of >=
GoalReachedStrict == imu_get_steps_last_hour > IMU_STEP_GOAL_PER_HOUR

imu_step_goal_reached == imu_get_steps_last_hour >= IMU_STEP_GOAL_PER_HOUR

\* imu_get_activity_level with <= in the place of every <
ActivityLevelInclusive ==
    LET steps == imu_get_steps_last_hour
    IN  IF steps <= 50 THEN 0
        ELSE IF steps <= IMU_STEP_GOAL_PER_HOUR THEN 1
        ELSE IF steps <= IMU_STEP_GOAL_PER_HOUR * 2 THEN 2
        ELSE 3

imu_get_activity_level ==
    LET steps == imu_get_steps_last_hour
    IN  IF steps < 50 THEN 0
        ELSE IF steps < IMU_STEP_GOAL_PER_HOUR THEN 1
        ELSE IF steps < IMU_STEP_GOAL_PER_HOUR * 2 THEN 2
        ELSE 3

----------------------------------------------------------------------------
\* Step detector

\* s_mag_hp > IMU_STEP_THRESHOLD_G
Crossing(hp) == FGt(hp, IMU_STEP_THRESHOLD_G)

\* dt > IMU_STEP_MIN_INTERVAL_MS, dt = now - s_last_step_ms (uint32)
IntervalElapsed(t, last) == Gt32(Sub32(t, last), IMU_STEP_MIN_INTERVAL_MS)

StepDetected(hp, t, last) == Crossing(hp) /\ IntervalElapsed(t, last)

\* s_last_step_ms moved by every crossing, counted or not
LastStepOnCrossing(hp, t, last) == IF Crossing(hp) THEN t ELSE last

\* s_last_step_ms after the detector: now_ms if a step was detected
LastStepAfter(hp, t, last) == IF StepDetected(hp, t, last) THEN t ELSE last

\* s_total_steps++ written so that every step counts twice
IncTotalTwice(n) == Add32(n, U32(2))

\* A detector that records the step in the histogram only
IncTotalForgotten(n) == n

\* s_total_steps++
IncTotal(n) == Add32(n, U32(1))

\* RecordStep with the increment of the running sum forgotten
RecordStepNoSum(h) == [h EXCEPT !.buckets[h.idx] = (@ + 1) % UINT16_MOD]

\* RecordStep counting into the bucket after the current one
RecordStepNextBucket(h) ==
    [h EXCEPT !.buckets[(h.idx + 1) % IMU_HISTORY_MINUTES] = (@ + 1) % UINT16_MOD,
              !.sum = Add32(@, U32(1))]

\* Count a step into the current minute bucket and the running sum
RecordStep(h) ==
    [h EXCEPT !.buckets[h.idx] = (@ + 1) % UINT16_MOD,
              !.sum = Add32(@, U32(1))]

\* LowPass with the seeding by the first sample forgotten
LowPassUnseeded(seeded, lp, mag) ==
    FAdd(lp, FMul(IMU_MAG_LP_ALPHA, FSub(mag, lp)))

\* The low-pass of |a| after a sample of magnitude mag:
\* s_mag_lp += IMU_MAG_LP_ALPHA * (mag - s_mag_lp), the first sample seeding it
LowPass(seeded, lp, mag) ==
    IF ~seeded THEN mag ELSE FAdd(lp, FMul(IMU_MAG_LP_ALPHA, FSub(mag, lp)))

----------------------------------------------------------------------------
\* Initial state: the static initialisers of imu.c, before main() runs

InitEngine ==
    /\ spi_initialized = FALSE
    /\ s_initialized = FALSE
    /\ s_raw = <<0, 0, 0>>
    /\ s_filt = <<FZero, FZero, FZero>>
    /\ s_mag_lp_initialized = FALSE
    /\ s_mag_lp = FZero
    /\ s_mag_hp = FZero
    /\ s_total_steps = Zero32
    /\ s_last_step_ms = Zero32
    /\ s_steps_per_min = ZeroBuckets
    /\ s_curr_min_idx = 0
    /\ s_curr_bucket_start_ms = Zero32
    /\ s_steps_last_hour_sum = Zero32

InitFrom(starts, drivers) ==
    /\ InitEngine
    /\ driver \in drivers
    /\ now_ms \in starts
    /\ imu_ok = FALSE
    /\ last_imu_ms = Zero32
    /\ last_call = "boot"
    /\ log = <<>>
    /\ ticks = 0
    /\ inits = 0
    /\ discarded = Zero32

----------------------------------------------------------------------------
\* bool imu_init(void), the device answering WHO_AM_I with whoami

imu_init(whoami) ==
    /\ inits < MaxInits
    /\ inits' = inits + 1
    /\ spi_initialized' = TRUE
    /\ last_call' = "init"
    /\ UNCHANGED <<now_ms, last_imu_ms, ticks, driver>>
    /\ IF whoami # LSM6DS3_WHO_AM_I_VALUE
       THEN /\ s_initialized' = FALSE
            /\ imu_ok' = FALSE
            /\ UNCHANGED <<s_raw, s_filt, s_mag_lp_initialized, s_mag_lp, s_mag_hp,
                           s_total_steps, s_last_step_ms, s_steps_per_min,
                           s_curr_min_idx, s_curr_bucket_start_ms,
                           s_steps_last_hour_sum, log, discarded>>
       ELSE LET h == imu_history_reset(Zero32)
            IN  /\ s_raw' = <<0, 0, 0>>
                /\ s_filt' = <<FZero, FZero, FZero>>
                /\ s_mag_lp_initialized' = FALSE
                /\ s_mag_lp' = FZero
                /\ s_mag_hp' = FZero
                /\ s_total_steps' = Zero32
                /\ s_last_step_ms' = Zero32
                /\ s_steps_per_min' = h.buckets
                /\ s_curr_min_idx' = h.idx
                /\ s_curr_bucket_start_ms' = h.start
                /\ s_steps_last_hour_sum' = h.sum
                /\ s_initialized' = TRUE
                /\ imu_ok' = TRUE
                /\ log' = <<>>
                /\ discarded' = s_total_steps

----------------------------------------------------------------------------
\* void imu_update(uint32_t now_ms), the sensor delivering the burst raw

\* The local values of one call are bound once, in the order the code computes them
imu_update(t, raw) ==
    IF ~s_initialized
    THEN UNCHANGED engine
    ELSE
      \E h \in {imu_history_advance_buckets(Hist, t)},
         a \in {imu_read_accel_raw_internal(raw)} :
      \E g \in {SampleInG(a)} :
      \E mag \in {MagnitudeInG(g)} :
      \E lp \in {LowPass(s_mag_lp_initialized, s_mag_lp, mag)} :
      \E hp \in {FSub(mag, lp)} :
      \E r \in {IF StepDetected(hp, t, s_last_step_ms) THEN RecordStep(h) ELSE h} :
          /\ s_raw' = a
          /\ s_filt' = g
          /\ s_mag_lp' = lp
          /\ s_mag_lp_initialized' = TRUE
          /\ s_mag_hp' = hp
          /\ s_last_step_ms' = LastStepAfter(hp, t, s_last_step_ms)
          /\ s_total_steps' =
                IF StepDetected(hp, t, s_last_step_ms)
                THEN IncTotal(s_total_steps) ELSE s_total_steps
          /\ s_steps_per_min' = r.buckets
          /\ s_curr_min_idx' = r.idx
          /\ s_curr_bucket_start_ms' = r.start
          /\ s_steps_last_hour_sum' = r.sum
          /\ UNCHANGED <<spi_initialized, s_initialized>>

\* What an observer of the call imu_update(t, raw) records about it: the call's
\* arguments, the engine state it started from, and what the call decided: the
\* magnitude of the sample (mag), hp, whether the detector fired (step), and
\* sum1, the running sum after the bucket advance and before the step of this
\* call was recorded
Observation(t, raw) ==
    LET fired == StepDetected(s_mag_hp', t, s_last_step_ms)
    IN  [t |-> t, d |-> Sub32(t, now_ms), a |-> imu_read_accel_raw_internal(raw),
         lp0 |-> s_mag_lp, seeded |-> s_mag_lp_initialized,
         total0 |-> s_total_steps, start0 |-> s_curr_bucket_start_ms,
         idx0 |-> s_curr_min_idx, sum0 |-> s_steps_last_hour_sum,
         mag |-> Magnitude(imu_read_accel_raw_internal(raw)), hp |-> s_mag_hp', step |-> fired,
         sum1 |-> IF fired THEN Sub32(s_steps_last_hour_sum', U32(1))
                  ELSE s_steps_last_hour_sum']

\* One iteration of main()'s loop, the clock having moved on by d ms since the
\* iteration before: when IMU_SAMPLE_MS or more have passed since the last
\* sample the loop notes the time and, if imu_init succeeded, calls imu_update
MainLoopTick(d, raw) ==
    /\ driver = "free"
    /\ ticks < MaxTicks
    /\ ticks' = ticks + 1
    /\ now_ms' = Add32(now_ms, d)
    /\ UNCHANGED <<imu_ok, inits, discarded, driver>>
    /\ IF Ge32(Sub32(now_ms', last_imu_ms), IMU_SAMPLE_MS)
       THEN /\ last_imu_ms' = now_ms'
            /\ IF imu_ok
               THEN /\ last_call' = "update"
                    /\ imu_update(now_ms', raw)
                    /\ log' = IF s_initialized
                              THEN Append(log, Observation(now_ms', raw)) ELSE log
               ELSE /\ last_call' = "idle"
                    /\ UNCHANGED <<engine, log>>
       ELSE /\ last_call' = "idle"
            /\ UNCHANGED <<engine, log, last_imu_ms>>

\* A caller of the API other than main(): imu_update(now_ms + d) for any d,
\* whether or not imu_init succeeded
UpdateCall(d, raw) ==
    /\ driver = "free"
    /\ ticks < MaxTicks
    /\ ticks' = ticks + 1
    /\ now_ms' = Add32(now_ms, d)
    /\ last_call' = "update"
    /\ UNCHANGED <<imu_ok, last_imu_ms, inits, discarded, driver>>
    /\ imu_update(now_ms', raw)
    /\ log' = IF s_initialized THEN Append(log, Observation(now_ms', raw)) ELSE log

----------------------------------------------------------------------------
\* Inputs

\* 6-byte bursts: about 1.0 g on +z, 1.5 g on +z, 2.0 g on +z
Raw1G == <<0, 0, 0, 0, 9, 64>>
Raw15G == <<0, 0, 0, 0, 14, 96>>
Raw2G == <<0, 0, 0, 0, 255, 127>>

WhoAmI == {LSM6DS3_WHO_AM_I_VALUE, 0}

Samples == {Raw1G, Raw15G}

\* A clock that starts at 0, or one minute before it wraps
ClockStarts == {Zero32, Sub32(Zero32, U32(BUCKET_MS))}

\* Forward steps of the clock between two ticks
Deltas == {U32(0), U32(100), U32(300), U32(BUCKET_MS)}

Init == InitFrom(ClockStarts, {"free"})

Next ==
    \/ \E w \in WhoAmI : imu_init(w)
    \/ \E d \in Deltas, raw \in Samples : MainLoopTick(d, raw)

Spec == Init /\ [][Next]_vars

----------------------------------------------------------------------------
\* Arbitrary call sequences: now_ms may also step backwards, and a scripted run
\* keeps recording steps into one minute bucket.
\*
\* The scripted run: samples alternate 1 g / 2 g, so every second sample crosses
\* the threshold; now_ms alternates between two instants 1000 ms apart inside the
\* same minute (1000, 1000, 2000, 2000, 1000, ...), so every crossing is more
\* than 350 ms from the last step and no bucket advance ever happens.

MaxBurstTicks == 131100

BurstDelta(n) ==
    IF n % 2 = 1 THEN Zero32
    ELSE IF n % 4 = 2 THEN U32(1000) ELSE Sub32(Zero32, U32(1000))

BurstSample(n) == IF n % 2 = 1 THEN Raw2G ELSE Raw1G

BurstTick ==
    /\ driver = "burst"
    /\ s_initialized
    /\ ticks < MaxBurstTicks
    /\ ticks' = ticks + 1
    /\ now_ms' = Add32(now_ms, BurstDelta(ticks))
    /\ last_call' = "update"
    /\ UNCHANGED <<imu_ok, last_imu_ms, inits, discarded, driver, log>>
    /\ imu_update(now_ms', BurstSample(ticks))

DeltasAny == {U32(100), U32(400), U32(IMU_HISTORY_MINUTES * BUCKET_MS),
              Sub32(Zero32, U32(100))}

InitAny ==
    \/ InitFrom({U32(20)}, {"free"})
    \/ InitFrom({U32(2000)}, {"burst"})

NextAny ==
    \/ driver = "free" /\ \E w \in WhoAmI : imu_init(w)
    \/ driver = "burst" /\ inits = 0 /\ imu_init(LSM6DS3_WHO_AM_I_VALUE)
    \/ \E d \in DeltasAny, raw \in Samples : UpdateCall(d, raw)
    \/ BurstTick

SpecAny == InitAny /\ [][NextAny]_vars

----------------------------------------------------------------------------
\* Hour-scale runs: one imu_init at boot, as in main(), then ticks between which
\* the clock moves on by 400 ms, one minute or 59 minutes

DeltasHour == {U32(400), U32(BUCKET_MS), U32(59 * BUCKET_MS)}

\* A clock that starts 20 ms after 0, or two minutes before it wraps
ClockStartsHour == {U32(20), Sub32(Zero32, U32(2 * BUCKET_MS))}

InitHour == InitFrom(ClockStartsHour, {"free"})

NextHour ==
    \/ inits = 0 /\ \E w \in WhoAmI : imu_init(w)
    \/ \E d \in DeltasHour, raw \in Samples : MainLoopTick(d, raw)

SpecHour == InitHour /\ [][NextHour]_vars

----------------------------------------------------------------------------
\* Long gaps: one imu_init at boot, then ticks between which the clock moves on
\* by 50 seconds (into the middle of a bucket) or by exactly 1, 61 or 71582
\* minutes; 71582 minutes = 2^32 - 47296 ms is the longest gap of whole minutes
\* a uint32_t clock can show

DeltasGap == {U32(50000), U32(BUCKET_MS), U32(61 * BUCKET_MS),
              Sub32(Zero32, U32(47296))}

InitGap == InitFrom(ClockStartsHour, {"free"})

NextGap ==
    \/ inits = 0 /\ \E w \in WhoAmI : imu_init(w)
    \/ \E d \in DeltasGap, raw \in Samples : MainLoopTick(d, raw)

SpecGap == InitGap /\ [][NextGap]_vars

----------------------------------------------------------------------------
\* A walk and a rest: one imu_init at boot, then a scripted walk of MaxWalkTicks
\* ticks WalkStepMs apart whose samples alternate 1 g / 2 g (a step every 400
\* ms, so the walk fills two minute buckets with more than 250 steps), then up
\* to MaxRests ticks at rest (1 g) that come 1, 58 or 59 minutes apart

MaxWalkTicks == 510
MaxRests == 3
WalkStepMs == 200

WalkSample(n) == IF n % 2 = 1 THEN Raw2G ELSE Raw1G

WalkTick ==
    /\ driver = "walk"
    /\ s_initialized
    /\ ticks < MaxWalkTicks
    /\ ticks' = ticks + 1
    /\ now_ms' = Add32(now_ms, U32(WalkStepMs))
    /\ last_call' = "update"
    /\ UNCHANGED <<imu_ok, last_imu_ms, inits, discarded, driver, log>>
    /\ imu_update(now_ms', WalkSample(ticks))

DeltasRest == {U32(BUCKET_MS), U32(58 * BUCKET_MS), U32(59 * BUCKET_MS)}

RestTick(d) ==
    /\ driver = "walk"
    /\ s_initialized
    /\ ticks >= MaxWalkTicks
    /\ ticks < MaxWalkTicks + MaxRests
    /\ ticks' = ticks + 1
    /\ now_ms' = Add32(now_ms, d)
    /\ last_call' = "update"
    /\ UNCHANGED <<imu_ok, last_imu_ms, inits, discarded, driver, log>>
    /\ imu_update(now_ms', Raw1G)

InitGoal == InitFrom({U32(20)}, {"walk"})

NextGoal ==
    \/ inits = 0 /\ \E w \in WhoAmI : imu_init(w)
    \/ WalkTick
    \/ \E d \in DeltasRest : RestTick(d)

SpecGoal == InitGoal /\ [][NextGoal]_vars

----------------------------------------------------------------------------
\* Failed acquisitions: one imu_init at boot, then ticks 400 ms or a minute apart
\* on some of which the sensor does not drive the bus.  imu_read_regs ignores
\* what spi_read_blocking returns, so the six bytes are then whatever the idle
\* line read: all ones or all zeroes

RawBusHigh == <<255, 255, 255, 255, 255, 255>>
RawBusLow == <<0, 0, 0, 0, 0, 0>>

FaultBursts == {RawBusHigh, RawBusLow}

DeltasFault == {U32(400), U32(BUCKET_MS)}

InitFault == InitFrom({U32(20)}, {"free"})

NextFault ==
    \/ inits = 0 /\ \E w \in WhoAmI : imu_init(w)
    \/ \E d \in DeltasFault, raw \in Samples \cup FaultBursts : MainLoopTick(d, raw)

SpecFault == InitFault /\ [][NextFault]_vars

----------------------------------------------------------------------------
\* The fastest walk the detector can count: one imu_init at boot, a seeding tick
\* (1 g), a first step (2 g) DenseLeads ms later, then samples alternating 1 g /
\* 2 g that come 175 and 176 ms apart, so that a step is counted every 351 ms.
\* With a lead of 330 ms the 171st step falls on the first instant of the second
\* minute (330 + 170 * 351 = 60000) and that minute holds as many steps as a
\* minute can

MaxDenseTicks == 700

DenseLeads == {100, 200, 330, 351}

DenseDelta(n, lead) ==
    IF n = 0 THEN 0
    ELSE IF n = 1 THEN lead
    ELSE IF n % 2 = 0 THEN 175 ELSE 176

DenseTick(lead) ==
    /\ driver = "dense"
    /\ s_initialized
    /\ ticks < MaxDenseTicks
    /\ ticks' = ticks + 1
    /\ now_ms' = Add32(now_ms, U32(DenseDelta(ticks, lead)))
    /\ last_call' = "update"
    /\ UNCHANGED <<imu_ok, last_imu_ms, inits, discarded, driver, log>>
    /\ imu_update(now_ms', WalkSample(ticks))

InitDense == InitFrom({U32(1000)}, {"dense"})

NextDense ==
    \/ inits = 0 /\ \E w \in WhoAmI : imu_init(w)
    \/ \E lead \in DenseLeads : DenseTick(lead)

SpecDense == InitDense /\ [][NextDense]_vars

----------------------------------------------------------------------------
\* A second engine, run beside the first.  Its state is a record
\*   [seeded, lp, last, total, h]
\* of s_mag_lp_initialized, s_mag_lp, s_last_step_ms, s_total_steps and the
\* histogram; its steps are imu_init and imu_update written as functions.

\* The engine as a successful imu_init leaves it
ColdEngine ==
    [seeded |-> FALSE, lp |-> FZero, last |-> Zero32, total |-> Zero32,
     h |-> imu_history_reset(Zero32)]

\* imu_update(t) on the engine e, the sample having magnitude mag
UpdateEngine(e, t, mag) ==
    LET h     == imu_history_advance_buckets(e.h, t)
        lp    == LowPass(e.seeded, e.lp, mag)
        hp    == FSub(mag, lp)
        fired == StepDetected(hp, t, e.last)
    IN  [seeded |-> TRUE,
         lp     |-> lp,
         last   |-> LastStepAfter(hp, t, e.last),
         total  |-> IF fired THEN IncTotal(e.total) ELSE e.total,
         h      |-> IF fired THEN RecordStep(h) ELSE h]

\* The second engine after the first n calls of the log, its clock ahead of the
\* first engine's by off
RECURSIVE Replay(_, _)
Replay(n, off) ==
    IF n = 0 THEN ColdEngine
    ELSE UpdateEngine(Replay(n - 1, off), Add32(log[n].t, off), log[n].mag)

\* What the four queries return on an engine with the given total and sum
ReportsOf(total, sum) ==
    LET steps == IF sum[1] > 0 THEN 65535 ELSE sum[2]
    IN  [total     |-> total,
         last_hour |-> steps,
         goal      |-> steps >= IMU_STEP_GOAL_PER_HOUR,
         level     |-> IF steps < 50 THEN 0
                       ELSE IF steps < IMU_STEP_GOAL_PER_HOUR THEN 1
                       ELSE IF steps < IMU_STEP_GOAL_PER_HOUR * 2 THEN 2
                       ELSE 3]

\* What the four queries return on the engine of this module
Reports ==
    [total     |-> imu_get_total_steps,
     last_hour |-> imu_get_steps_last_hour,
     goal      |-> imu_step_goal_reached,
     level     |-> imu_get_activity_level]

----------------------------------------------------------------------------
\* Helpers of the properties

RECURSIVE SumUpTo(_, _)
SumUpTo(f, n) == IF n < 0 THEN 0 ELSE f[n] + SumUpTo(f, n - 1)

\* s_steps_per_min[0] + ... + s_steps_per_min[59]
SumBuckets == SumUpTo(s_steps_per_min, IMU_HISTORY_MINUTES - 1)

\* Some call so far evicted a non-empty bucket
Evicted == \E i \in DOMAIN log : log[i].sum1 # log[i].sum0

----------------------------------------------------------------------------
\* C1 (as stated): after any sequence of imu_init() and imu_update(now_ms) calls
\* the running sum s_steps_last_hour_sum equals the sum of the 60 buckets.
C1_SumEqualsBuckets ==
    s_steps_last_hour_sum[1] < 32768 => Val32(s_steps_last_hour_sum) = SumBuckets

\* C1 (amended): the running sum equals the sum of the 60 buckets whenever it is
\* below 65536; a bucket is 16 bits wide and wraps on its 65536th step, the
\* running sum does not.
C1_SumEqualsBucketsBelowWrap ==
    s_steps_last_hour_sum[1] = 0 => s_steps_last_hour_sum[2] = SumBuckets

\* C1 witness: steps are in the window after an earlier call evicted some
C1_Witness ==
    /\ last_call = "update"
    /\ Evicted
    /\ s_steps_last_hour_sum[1] = 0
    /\ s_steps_last_hour_sum[2] >= 1
    /\ s_steps_last_hour_sum[2] = SumBuckets

----------------------------------------------------------------------------
\* Unsigned a < b, a <= b on uint32 pairs
Lt32(a, b) == a[1] < b[1] \/ (a[1] = b[1] /\ a[2] < b[2])
Le32(a, b) == a = b \/ Lt32(a, b)

\* floor(a / 60000) for a uint32 pair a (60000 is a multiple of 32)
Minutes(a) == (a[1] * (UINT16_MOD \div 32) + a[2] \div 32) \div (BUCKET_MS \div 32)

\* The calls since the last successful init came with a clock that never went
\* back and never wrapped, and the first of them was not at time 0
NonWrappingRun ==
    /\ Len(log) >= 1
    /\ log[1].t # Zero32
    /\ \A i \in 1 .. Len(log) - 1 : Le32(log[i].t, log[i + 1].t)

\* The calls (by position in the log) that recorded a step
StepCalls == {i \in DOMAIN log : log[i].step}

\* The minute, counted from the first call, that the call at position i fell in
MinuteOf(i) == Minutes(Sub32(log[i].t, log[1].t))

\* The recorded steps whose minute bucket has not been evicted by the last call
LiveSteps == {i \in StepCalls : MinuteOf(Len(log)) - MinuteOf(i) < IMU_HISTORY_MINUTES}

\* now - t for the last call's now and the time t of the call at position i
AgeOf(i) == Sub32(log[Len(log)].t, log[i].t)

\* C2: with a monotonic, non-wrapping clock first read at a nonzero time, a step
\* recorded at time t is counted by imu_get_steps_last_hour() after every later
\* update with now - t <= 3540000 and not counted after one with now - t >=
\* 3600000; the value is the number of steps whose bucket is not yet evicted.
C2_RollingHourWindow ==
    (s_initialized /\ NonWrappingRun) =>
        /\ imu_get_steps_last_hour = Cardinality(LiveSteps)
        /\ \A i \in StepCalls :
              /\ ~Gt32(AgeOf(i), 59 * BUCKET_MS) => i \in LiveSteps
              /\ Ge32(AgeOf(i), 60 * BUCKET_MS) => i \notin LiveSteps

\* C2 witness: one step is exactly 59 minutes old and counted, another is 60
\* minutes old or more and no longer counted
C2_Witness ==
    /\ s_initialized /\ NonWrappingRun
    /\ \E i \in StepCalls : AgeOf(i) = U32(59 * BUCKET_MS) /\ i \in LiveSteps
    /\ \E i \in StepCalls : Ge32(AgeOf(i), 60 * BUCKET_MS)
    /\ imu_get_steps_last_hour = Cardinality(LiveSteps)

----------------------------------------------------------------------------
\* The calls whose high-pass value was above the threshold
Crossings == {i \in DOMAIN log : Crossing(log[i].hp)}

\* i and j are two crossings with no crossing between them
ConsecutiveCrossings(i, j) ==
    /\ i \in Crossings /\ j \in Crossings /\ i < j
    /\ \A k \in Crossings : ~(i < k /\ k < j)

\* No step was counted in the 350 ms before the call at position i
NoStepJustBefore(i) ==
    \A k \in StepCalls :
        k < i => Gt32(Sub32(log[i].t, log[k].t), IMU_STEP_MIN_INTERVAL_MS)

StepsAt(i) == IF log[i].step THEN 1 ELSE 0

\* C3: two crossings at t1 and t2, no step counted in the 350 ms before t1, give
\* one step if (t2 - t1) mod 2^32 <= 350 and two steps if it is > 350.
C3_RefractoryPair ==
    \A i, j \in DOMAIN log :
        (ConsecutiveCrossings(i, j) /\ NoStepJustBefore(i)) =>
            StepsAt(i) + StepsAt(j) =
                IF Gt32(Sub32(log[j].t, log[i].t), IMU_STEP_MIN_INTERVAL_MS)
                THEN 2 ELSE 1

----------------------------------------------------------------------------
Accel1G == imu_read_accel_raw_internal(Raw1G)
Accel15G == imu_read_accel_raw_internal(Raw15G)

\* The calls at positions i, i+1, i+2 are scenario B: the baseline has settled at
\* 1.0 g and three 1.5 g samples arrive at now_ms = 0, 100 and 400
ScenarioB(i) ==
    /\ i + 2 <= Len(log)
    /\ log[i].seeded /\ log[i].lp0 = Magnitude(Accel1G)
    /\ log[i].a = Accel15G /\ log[i].t = U32(0)
    /\ log[i + 1].a = Accel15G /\ log[i + 1].t = U32(100)
    /\ log[i + 2].a = Accel15G /\ log[i + 2].t = U32(400)

\* C4: in scenario B the sample at now_ms = 0 records a step, the one at 100
\* records none, the one at 400 records a second step.
C4_ScenarioB ==
    \A i \in DOMAIN log :
        ScenarioB(i) => (log[i].step /\ ~log[i + 1].step /\ log[i + 2].step)

----------------------------------------------------------------------------
\* C5: while the engine is uninitialised (never initialised, or the last imu_init
\* failed) imu_update changes no engine state, total_steps, steps_last_hour and
\* activity_level read 0 and goal_reached reads false.
C5_UninitializedInert ==
    [][ (~s_initialized) =>
            /\ imu_get_total_steps = Zero32
            /\ imu_get_steps_last_hour = 0
            /\ imu_get_activity_level = 0
            /\ ~imu_step_goal_reached
            /\ (last_call' = "update" => UNCHANGED engine) ]_vars

----------------------------------------------------------------------------
\* The call at position i found the sentinel and reset the histogram wholesale
ResetAt(i) == log[i].start0 = Zero32

\* C6: once an imu_update after a successful init has aligned the histogram (it
\* found the sentinel and re-based the bucket start to a nonzero now_ms), no later
\* imu_update resets it again, the clock moving forward and wrapping mod 2^32.
C6_NoResetOnceAligned ==
    \A i, k \in DOMAIN log :
        (ResetAt(i) /\ log[i].t # Zero32 /\ i < k) => ~ResetAt(k)

----------------------------------------------------------------------------
\* a mod 60000 for a uint32 pair a
ModMinute(a) == ((a[1] % BUCKET_MS) * (UINT16_MOD % BUCKET_MS) + a[2]) % BUCKET_MS

\* The histogram is aligned: the engine runs and an imu_update since the last
\* successful imu_init has set the bucket start
Aligned == s_initialized /\ Len(log) >= 1

\* ... and that imu_update came at a nonzero now_ms
AlignedAtNonzero == Aligned /\ log[1].t # Zero32

\* 1 if this step counted a step, else 0
CountedNow == IF s_total_steps' # s_total_steps THEN 1 ELSE 0

\* Bucket b after this step, without the step this tick recorded into it
BucketBeforeRecord(b) ==
    IF b = s_curr_min_idx' THEN s_steps_per_min'[b] - CountedNow
    ELSE s_steps_per_min'[b]

\* The buckets passed over by k advances from the current index
Passed(k) == {(s_curr_min_idx + j) % IMU_HISTORY_MINUTES : j \in 1 .. k}

RECURSIVE SumOver(_, _)
SumOver(f, S) ==
    IF S = {} THEN 0
    ELSE LET b == CHOOSE x \in S : TRUE IN f[b] + SumOver(f, S \ {b})

\* C7: on a histogram aligned at a nonzero time, an update exactly k minutes
\* (0 <= k <= 60) after the previous one moves current_index to (old + k) mod
\* 60, zeroes exactly the buckets old+1 .. old+k before the tick's step is
\* recorded, leaves the others unchanged and lowers the running sum by what the
\* zeroed buckets held.
C7_BucketRotation ==
    [][ (AlignedAtNonzero /\ last_call' = "update") =>
          \A k \in 0 .. IMU_HISTORY_MINUTES :
            (Sub32(now_ms', now_ms) = U32(k * BUCKET_MS)) =>
              /\ s_curr_min_idx' = (s_curr_min_idx + k) % IMU_HISTORY_MINUTES
              /\ \A b \in 0 .. IMU_HISTORY_MINUTES - 1 :
                    BucketBeforeRecord(b) =
                        IF b \in Passed(k) THEN 0 ELSE s_steps_per_min[b]
              /\ Val32(s_steps_last_hour_sum') - CountedNow =
                    Val32(s_steps_last_hour_sum) - SumOver(s_steps_per_min, Passed(k))
      ]_vars

\* This step is an update exactly k minutes after the previous one, k > 60, on
\* an aligned histogram
LongGapUpdate ==
    /\ Aligned /\ last_call' = "update"
    /\ ModMinute(Sub32(now_ms', now_ms)) = 0
    /\ Minutes(Sub32(now_ms', now_ms)) > IMU_HISTORY_MINUTES

\* After this step all 60 buckets are zero and the running sum is 0, the step
\* this tick recorded left out
AllClearedBeforeRecord ==
    /\ \A b \in 0 .. IMU_HISTORY_MINUTES - 1 : BucketBeforeRecord(b) = 0
    /\ Val32(s_steps_last_hour_sum') - CountedNow = 0

\* a + b < 2^32 for uint32 pairs a and b
NoCarry32(a, b) == a[1] + b[1] + (a[2] + b[2]) \div UINT16_MOD < UINT16_MOD

\* The gap of this step, added to how far the previous update was into its
\* bucket, stays below 2^32 ms: the elapsed time the loop condition of
\* imu_history_advance_buckets reads is then the true one.  It is so for every
\* gap of up to 71581 minutes, and for 71582 minutes when the previous update
\* was less than 47296 ms into its bucket.
GapBelowWrap ==
    NoCarry32(Sub32(now_ms, s_curr_bucket_start_ms), Sub32(now_ms', now_ms))

LastCall == log[Len(log)]

----------------------------------------------------------------------------
\* C9: for every reachable histogram and every now_ms, running
\* imu_history_advance_buckets(now_ms) twice leaves the histogram as after
\* running it once.
C9_AdvanceIdempotent ==
    \A d \in Deltas \cup DeltasAny :
        LET t    == Add32(now_ms, d)
            once == imu_history_advance_buckets(Hist, t)
        IN  imu_history_advance_buckets(once, t) = once

----------------------------------------------------------------------------
\* C10: between two initialisations imu_get_total_steps() never decreases; every
\* update raises it by 1 when the detector fires and by 0 otherwise, so it is the
\* number of step events since the last successful init.
C10_TotalCountsStepEvents ==
    /\ imu_get_total_steps = U32(Cardinality(StepCalls))
    /\ \A i \in DOMAIN log :
          LET after == IF i = Len(log) THEN s_total_steps ELSE log[i + 1].total0
          IN  after = Add32(log[i].total0, U32(StepsAt(i)))

\* C10 witness: two steps counted, and at least one update that counted none
C10_Witness ==
    /\ s_initialized
    /\ imu_get_total_steps = U32(2)
    /\ \E i \in DOMAIN log : ~log[i].step /\ log[i].seeded

----------------------------------------------------------------------------
\* C11: after every imu_update on a running engine (now_ms - bucket_start_ms)
\* mod 2^32 is below 60000: now_ms lies in the current bucket's interval
\* [bucket_start_ms, bucket_start_ms + 60000), so a step of the tick is counted
\* in the bucket of the minute that holds the tick.
C11_NowInCurrentBucket ==
    (s_initialized /\ last_call = "update") =>
        Lt32(Sub32(now_ms, s_curr_bucket_start_ms), U32(BUCKET_MS))

\* C11 witness: the last update moved the bucket start on, counted a step and
\* came 400 ms after the start of the bucket it counted into
C11_Witness ==
    /\ s_initialized /\ last_call = "update" /\ Len(log) >= 1
    /\ LastCall.start0 # Zero32
    /\ LastCall.start0 # s_curr_bucket_start_ms
    /\ LastCall.step
    /\ s_steps_per_min[s_curr_min_idx] = 1
    /\ Sub32(now_ms, s_curr_bucket_start_ms) = U32(400)

----------------------------------------------------------------------------
\* C12: the first imu_update after a successful imu_init leaves bucket_start_ms
\* equal to its now_ms, current_index 0, every bucket zero and the running sum
\* 0, whatever now_ms is and whatever the engine held before the init.
C12_ColdStart ==
    (s_initialized /\ last_call = "update" /\ Len(log) = 1) =>
        /\ s_curr_bucket_start_ms = now_ms
        /\ s_curr_min_idx = 0
        /\ s_steps_per_min = ZeroBuckets
        /\ s_steps_last_hour_sum = Zero32

\* C12 witness: the first update after an init that threw counted steps away,
\* at a nonzero now_ms
C12_Witness ==
    /\ s_initialized /\ last_call = "update" /\ Len(log) = 1
    /\ discarded # Zero32
    /\ now_ms # Zero32
    /\ s_curr_bucket_start_ms = now_ms
    /\ s_steps_per_min = ZeroBuckets

----------------------------------------------------------------------------
\* C13: imu_get_activity_level() is a function of imu_get_steps_last_hour()
\* alone: 0 below 50, 1 from 50 to 249, 2 from 250 to 499, 3 from 500 on.
C13_ActivityLevels ==
    LET count == imu_get_steps_last_hour
    IN  /\ count < 50 => imu_get_activity_level = 0
        /\ (50 <= count /\ count < 250) => imu_get_activity_level = 1
        /\ (250 <= count /\ count < 500) => imu_get_activity_level = 2
        /\ count >= 500 => imu_get_activity_level = 3

\* C13 witness: the count has just reached 500 and the level reads 3
C13_Witness ==
    /\ s_initialized /\ last_call = "update"
    /\ imu_get_steps_last_hour = 500
    /\ imu_get_activity_level = 3

----------------------------------------------------------------------------
\* C15: imu_get_steps_last_hour() is min(running sum, 65535): never the sum
\* truncated mod 2^16, never more than the sum.
C15_LastHourSaturates ==
    LET sum == Val32(s_steps_last_hour_sum)
    IN  /\ imu_get_steps_last_hour = (IF sum < 65535 THEN sum ELSE 65535)
        /\ imu_get_steps_last_hour <= sum

\* C15 witness: the running sum is 65540 and the query reads 65535
C15_Witness ==
    /\ s_initialized
    /\ Val32(s_steps_last_hour_sum) = 65540
    /\ imu_get_steps_last_hour = 65535

----------------------------------------------------------------------------
\* If this step turns the goal flag on, it is an update that counted a step and
\* brought the running sum to 250
GoalRise ==
    (~imu_step_goal_reached /\ imu_step_goal_reached') =>
        /\ last_call' = "update"
        /\ s_total_steps' = Add32(s_total_steps, U32(1))
        /\ Val32(s_steps_last_hour_sum') = 250

\* If this step turns the goal flag off, the running sum is below 250 after it,
\* and the step is an init or an update that lowered the sum before counting
GoalFall ==
    (imu_step_goal_reached /\ ~imu_step_goal_reached') =>
        /\ Val32(s_steps_last_hour_sum') < 250
        /\ \/ last_call' = "init"
           \/ /\ last_call' = "update"
              /\ Val32(s_steps_last_hour_sum') - CountedNow
                    < Val32(s_steps_last_hour_sum)

\* C14: imu_step_goal_reached() is true exactly when the rolling-hour sum is at
\* least 250; it turns true on the update that records the step bringing the sum
\* to 250 and turns false on the update whose eviction (or on the init whose
\* reset) brings the sum below 250.
C14_GoalFollowsSum ==
    /\ [](imu_step_goal_reached <=> Val32(s_steps_last_hour_sum) >= 250)
    /\ [][GoalRise /\ GoalFall]_vars

\* C14 witness: the walk took the sum past 250, a rest evicted its first minute,
\* and the goal reads false again with steps still in the window
C14_Witness ==
    /\ s_initialized /\ last_call = "update"
    /\ ticks > MaxWalkTicks
    /\ Val32(s_total_steps) >= 250
    /\ Val32(s_steps_last_hour_sum) >= 1
    /\ Val32(s_steps_last_hour_sum) < 250
    /\ ~imu_step_goal_reached

----------------------------------------------------------------------------
\* C16: after every imu_init() that returned true, the first or a later one,
\* total_steps = 0, running sum = 0, all 60 buckets zero, current_index = 0,
\* bucket_start_ms is the unset sentinel 0, last_step_ms = 0 and the filter is
\* marked unseeded, whatever the state before the call.
C16_InitResetsAll ==
    (last_call = "init" /\ s_initialized) =>
        /\ s_total_steps = Zero32
        /\ s_steps_last_hour_sum = Zero32
        /\ s_steps_per_min = ZeroBuckets
        /\ s_curr_min_idx = 0
        /\ s_curr_bucket_start_ms = Zero32
        /\ s_last_step_ms = Zero32
        /\ ~s_mag_lp_initialized

\* C16 witness: a second imu_init succeeded on an engine that had counted steps
C16_Witness ==
    /\ last_call = "init" /\ s_initialized
    /\ inits = 2
    /\ discarded # Zero32
    /\ s_total_steps = Zero32
    /\ s_steps_per_min = ZeroBuckets

----------------------------------------------------------------------------
\* The magnitudes of the samples since the last successful init
Magnitudes == {log[i].mag : i \in DOMAIN log}

\* C17: while every sample since the init has had the same magnitude, the
\* high-pass value was 0 on every tick, and total_steps() and activity_level()
\* are 0, for any number of updates at any timestamps.
C17_ConstantMagnitudeNoSteps ==
    (s_initialized /\ Cardinality(Magnitudes) <= 1) =>
        /\ \A i \in DOMAIN log : log[i].hp = FZero
        /\ imu_get_total_steps = Zero32
        /\ imu_get_activity_level = 0

\* C17 witness: three or more samples of 1.5 g, the last a minute or more after
\* the first, and no step
C17_Witness ==
    /\ s_initialized /\ last_call = "update"
    /\ Len(log) >= 3
    /\ Magnitudes = {Magnitude(Accel15G)}
    /\ Ge32(Sub32(LastCall.t, log[1].t), BUCKET_MS)
    /\ imu_get_total_steps = Zero32

----------------------------------------------------------------------------
\* The sample of this step's imu_update is one read off a bus nobody drove
ReadFailed ==
    /\ last_call' = "update" /\ s_initialized
    /\ s_raw' \in {imu_read_accel_raw_internal(b) : b \in FaultBursts}

\* C18: on a tick whose accelerometer sample could not be obtained the tick is
\* dropped: the filter baseline, the high-pass value, last_step_ms, total_steps
\* and the buckets are left as they were.
C18_FailedReadDropsTick ==
    [][ ReadFailed =>
            UNCHANGED <<s_mag_lp, s_mag_hp, s_last_step_ms, s_total_steps,
                        s_steps_per_min>> ]_vars

----------------------------------------------------------------------------
\* This step is an imu_update on a running engine
Updating == last_call' = "update" /\ s_initialized

\* The detector's condition on this step: high-pass above 0.35 g and more than
\* 350 ms (mod 2^32) since the last counted step
Qualifying ==
    /\ Crossing(s_mag_hp')
    /\ Gt32(Sub32(now_ms', s_last_step_ms), IMU_STEP_MIN_INTERVAL_MS)

\* The histogram as this step's bucket advance leaves it, before the detector
Advanced == imu_history_advance_buckets(Hist, now_ms')

\* C19 (as stated): on a qualifying tick last_step_ms becomes now_ms, and
\* total_steps, buckets[current_index] and the running sum each rise by exactly
\* 1; no other bucket changes.
C19_QualifyingTickCountsOne ==
    [][ (Updating /\ Qualifying) =>
            /\ s_last_step_ms' = now_ms'
            /\ s_total_steps' = Add32(s_total_steps, U32(1))
            /\ s_steps_last_hour_sum' = Add32(Advanced.sum, U32(1))
            /\ s_curr_min_idx' = Advanced.idx
            /\ s_steps_per_min' =
                  [Advanced.buckets EXCEPT ![Advanced.idx] = @ + 1] ]_vars

\* C19 (amended): as above, the bucket being a 16-bit counter that goes from
\* 65535 to 0.
C19_QualifyingTickCountsOneMod ==
    [][ (Updating /\ Qualifying) =>
            /\ s_last_step_ms' = now_ms'
            /\ s_total_steps' = Add32(s_total_steps, U32(1))
            /\ s_steps_last_hour_sum' = Add32(Advanced.sum, U32(1))
            /\ s_curr_min_idx' = Advanced.idx
            /\ s_steps_per_min' =
                  [Advanced.buckets EXCEPT ![Advanced.idx] = (@ + 1) % UINT16_MOD]
      ]_vars

\* C19 witness: the last update counted the second step of its minute
C19_Witness ==
    /\ s_initialized /\ last_call = "update" /\ Len(log) >= 1
    /\ LastCall.step
    /\ s_last_step_ms = now_ms
    /\ s_total_steps = Add32(LastCall.total0, U32(1))
    /\ s_steps_per_min[s_curr_min_idx] = 2
    /\ s_steps_last_hour_sum = U32(2)

----------------------------------------------------------------------------
\* C20: on a tick that does not qualify (high-pass at most 0.35 g, or at most
\* 350 ms since the last counted step) last_step_ms and total_steps stay and no
\* bucket is incremented; a crossing rejected inside the refractory window does
\* not restart the window.
C20_NonQualifyingTickCountsNone ==
    [][ (Updating /\ ~Qualifying) =>
            /\ s_last_step_ms' = s_last_step_ms
            /\ s_total_steps' = s_total_steps
            /\ s_steps_per_min' = Advanced.buckets
            /\ s_steps_last_hour_sum' = Advanced.sum ]_vars

\* C20 witness: a step, a crossing 300 ms later that was rejected, and a
\* crossing 400 ms after the step that was counted
C20_Witness ==
    /\ s_initialized /\ last_call = "update" /\ Len(log) >= 3
    /\ log[Len(log) - 2].step
    /\ Crossing(log[Len(log) - 1].hp) /\ ~log[Len(log) - 1].step
    /\ Sub32(log[Len(log) - 1].t, log[Len(log) - 2].t) = U32(300)
    /\ LastCall.step
    /\ Sub32(LastCall.t, log[Len(log) - 2].t) = U32(400)

----------------------------------------------------------------------------
\* C21: the first imu_update after a successful imu_init records no step,
\* whatever the sample and now_ms: the sample seeds the baseline, the high-pass
\* value is 0, and total_steps and all buckets are 0 after the call.
C21_FirstUpdateCountsNone ==
    (s_initialized /\ last_call = "update" /\ Len(log) = 1) =>
        /\ s_mag_lp_initialized
        /\ s_mag_lp = log[1].mag
        /\ s_mag_hp = FZero
        /\ ~log[1].step
        /\ s_total_steps = Zero32
        /\ s_steps_per_min = ZeroBuckets

\* C21 witness: the first update after an init came with a 1.5 g sample, more
\* than 350 ms after time 0, and counted nothing
C21_Witness ==
    /\ s_initialized /\ last_call = "update" /\ Len(log) = 1
    /\ log[1].a = Accel15G
    /\ IntervalElapsed(now_ms, Zero32)
    /\ s_mag_lp = Magnitude(Accel15G)
    /\ s_total_steps = Zero32

----------------------------------------------------------------------------
\* The times imu_update is probed with from a state: the clock moved on by any
\* forward step of the runs above, or back by 100 ms
ProbeTimes == {Add32(now_ms, d) : d \in Deltas \cup DeltasAny}

\* floor(((t - bucket_start_ms) mod 2^32) / 60000)
ElapsedMinutes(t) == Minutes(Sub32(t, s_curr_bucket_start_ms))

\* C22 (as stated): on a running engine, for every now_ms and bucket_start_ms,
\* now_ms below bucket_start_ms included, the bucket-advance loop ends after
\* exactly floor(((now_ms - bucket_start_ms) mod 2^32) / 60000) iterations.
C22_LoopIterations ==
    s_initialized =>
        \A t \in ProbeTimes : AdvanceIterations(Hist, t) = ElapsedMinutes(t)

\* C22 (amended): the loop ends after exactly that many iterations when
\* bucket_start_ms is nonzero, and is not entered when bucket_start_ms is 0.
C22_LoopIterationsOnceAligned ==
    s_initialized =>
        \A t \in ProbeTimes :
            AdvanceIterations(Hist, t) =
                IF s_curr_bucket_start_ms = Zero32 THEN 0 ELSE ElapsedMinutes(t)

\* C22 witness: steps are in the window and a now_ms 100 ms below the bucket
\* start takes the loop through 71582 iterations
C22_Witness ==
    /\ s_initialized /\ s_curr_bucket_start_ms # Zero32
    /\ s_steps_last_hour_sum # Zero32
    /\ now_ms = s_curr_bucket_start_ms
    /\ Lt32(Sub32(now_ms, U32(100)), s_curr_bucket_start_ms)
    /\ AdvanceIterations(Hist, Sub32(now_ms, U32(100))) = 71582

----------------------------------------------------------------------------
\* The constant offsets between the two clocks
ShiftOffsets == {U32(1000), U32(BUCKET_MS), Sub32(Zero32, U32(40))}

\* C23: two engines initialised alike and fed the same samples, the timestamps
\* of one ahead of the other's by a constant offset mod 2^32 and both starting
\* at a nonzero time, report the same total_steps, steps_last_hour,
\* goal_reached and activity_level after every update.
C23_TimeShiftInvariant ==
    (s_initialized /\ Len(log) >= 1) =>
        \A off \in ShiftOffsets :
            (log[1].t # Zero32 /\ Add32(log[1].t, off) # Zero32) =>
                LET shifted == Replay(Len(log), off)
                IN  ReportsOf(shifted.total, shifted.h.sum) = Reports

----------------------------------------------------------------------------
\* floor(59999 / 351) + 1
MaxStepsPerMinute == ((BUCKET_MS - 1) \div (IMU_STEP_MIN_INTERVAL_MS + 1)) + 1

\* C24: with now_ms increasing no minute bucket exceeds floor(59999/351) + 1 =
\* 171 steps and the running sum never exceeds 60 * 171 = 10260, so no bucket
\* wraps and imu_get_steps_last_hour() never reaches its clamp.
C24_BucketAtMost171 ==
    /\ MaxStepsPerMinute = 171
    /\ \A b \in 0 .. IMU_HISTORY_MINUTES - 1 : s_steps_per_min[b] <= 171
    /\ Val32(s_steps_last_hour_sum) <= 10260
    /\ Val32(s_steps_last_hour_sum) = SumBuckets
    /\ imu_get_steps_last_hour = Val32(s_steps_last_hour_sum)

\* C24 witness: a minute bucket holds 171 steps, the first of them counted on
\* the bucket's first millisecond
C24_Witness ==
    /\ s_initialized /\ last_call = "update"
    /\ s_steps_per_min[1] = 171
    /\ s_curr_min_idx = 1
    /\ Val32(s_steps_last_hour_sum) = SumBuckets

----------------------------------------------------------------------------
\* C25: after a successful imu_init the rolling-hour count never exceeds the
\* lifetime count: imu_get_steps_last_hour() <= imu_get_total_steps().
C25_LastHourAtMostTotal ==
    s_initialized =>
        /\ Le32(s_steps_last_hour_sum, s_total_steps)
        /\ imu_get_steps_last_hour <= Val32(imu_get_total_steps)

\* C25 witness: a step counted more than an hour ago has left the rolling hour
\* and a later one is still in it
C25_Witness ==
    /\ s_initialized /\ last_call = "update"
    /\ imu_get_steps_last_hour >= 1
    /\ imu_get_steps_last_hour < Val32(imu_get_total_steps)

----------------------------------------------------------------------------
\* C26: the two classifiers agree: imu_step_goal_reached() is true if and only
\* if imu_get_activity_level() >= 2.
C26_GoalIffLevelTwo ==
    imu_step_goal_reached <=> imu_get_activity_level >= 2

\* C26 witness: the hour holds exactly the goal, the goal is reached and the
\* level is 2
C26_Witness ==
    /\ s_initialized /\ last_call = "update"
    /\ imu_get_steps_last_hour = IMU_STEP_GOAL_PER_HOUR
    /\ imu_step_goal_reached
    /\ imu_get_activity_level = 2

====
